---- MODULE Spec2Model ----
(***************************************************************************)
(* Invoice Data Extractor (streamlit_app.py): the extraction client        *)
(* (extract_invoice_data), the batch / single-item orchestration of main() *)
(* and the session-state result store (st.session_state.all_extracted_data)*)
(*                                                                         *)
(* Texts are sequences of lexemes: a one-character string for punctuation, *)
(* whitespace, back-ticks and the letters of the fence tag; one lexeme for *)
(* a JSON string literal ("\"abc\""), a number or a keyword.               *)
(* Python values: a dict is [obj |-> <<[k |-> key, v |-> value], ...>>]    *)
(* in insertion order, a list [arr |-> <<...>>], a str [str |-> "..."],    *)
(* a number [num |-> n], a bool [bool |-> b] and None [none |-> TRUE].     *)
(***************************************************************************)
EXTENDS Integers, Sequences, FiniteSets, TLC

(* ------------------------------ bounds --------------------------------- *)
MaxFiles == 2

(* ----------------------------- Python values --------------------------- *)
PyNone == [none |-> TRUE]

PyStr(s) == [str |-> s]

PyNum(n) == [num |-> n]

PyList(xs) == [arr |-> xs]

PyDict(pairs) == [obj |-> pairs]

IsObj(v) == "obj" \in DOMAIN v

\* a test that takes every value as true
AlwaysTruthy(v) == TRUE

\* Python truth value of a value (if extracted_data:)
Truthy(v) ==
    CASE "none" \in DOMAIN v -> FALSE
      [] "bool" \in DOMAIN v -> v.bool
      [] "num"  \in DOMAIN v -> v.num # 0
      [] "str"  \in DOMAIN v -> v.str # ""
      [] "arr"  \in DOMAIN v -> Len(v.arr) > 0
      [] "obj"  \in DOMAIN v -> Len(v.obj) > 0

\* keys of a dict's pair list, in order
Keys(pairs) == [i \in 1..Len(pairs) |-> pairs[i].k]

HasKey(pairs, key) == \E i \in 1..Len(pairs) : pairs[i].k = key

\* d[key] of a dict's pair list (key present)
DictGet(pairs, key) == pairs[CHOOSE i \in 1..Len(pairs) : pairs[i].k = key].v

\* d[key] = val as a list that only grows
DictAppend(pairs, key, val) == Append(pairs, [k |-> key, v |-> val])

\* d[key] = val on a dict's pair list: replace in place, else append
DictSet(pairs, key, val) ==
    IF HasKey(pairs, key)
    THEN [i \in 1..Len(pairs) |->
            IF pairs[i].k = key THEN [k |-> key, v |-> val] ELSE pairs[i]]
    ELSE Append(pairs, [k |-> key, v |-> val])

(* ------------------------------- texts --------------------------------- *)
\* characters str.strip() removes (a subset: space, LF, TAB, CR, form feed)
PyWhitespace == {" ", "\n", "\t", "\r", "\f"}

\* characters json.loads skips between tokens (form feed is not one)
JsonWhitespace == {" ", "\n", "\t", "\r"}

Quote(s) == "\"" \o s \o "\""

\* the string literals that occur in the texts of the model
StringPool ==
    {"invoice", "header", "invoice_number", "invoice_date", "due_date",
     "issuing_company", "currency", "billing_parties", "bill_to", "bill_from",
     "company_name", "address", "organization_number", "vat_number", "phone",
     "email", "reference", "line_items", "totals", "subtotal",
     "total_discount", "total_vat", "total_amount", "amount_paid",
     "balance_due", "payment_info", "bank_name", "iban", "swift_bic",
     "payment_reference", "", "INV-1", "INV-2", "INV-3", "foo"}

StringLexemes == {Quote(s) : s \in StringPool}

Unquote(tok) == CHOOSE s \in StringPool : Quote(s) = tok

NumberLexemes == {"0", "1"}

NumberValue(tok) == IF tok = "0" THEN 0 ELSE 1

(* --------------------------- str operations ---------------------------- *)
StartsWith(t, p) == Len(t) >= Len(p) /\ SubSeq(t, 1, Len(p)) = p

EndsWith(t, p) == Len(t) >= Len(p) /\ SubSeq(t, Len(t) - Len(p) + 1, Len(t)) = p

\* str.strip(): drop the leading and the trailing whitespace characters
PyStrip(t) ==
    LET keep == {i \in 1..Len(t) : t[i] \notin PyWhitespace}
    IN  IF keep = {} THEN <<>>
        ELSE SubSeq(t, CHOOSE i \in keep : \A j \in keep : i <= j,
                       CHOOSE i \in keep : \A j \in keep : i >= j)

\* the back-tick character (the lexer of TLA+ does not take it in a string)
Tick == "BACKTICK"

\* the opening fence with its language tag
FenceOpen == <<Tick, Tick, Tick, "j", "s", "o", "n">>

\* the closing fence
FenceClose == <<Tick, Tick, Tick>>

(* ------------------------------ json.loads ----------------------------- *)
\* first position >= i of t that is not JSON whitespace (Len(t)+1 if none)
SkipWs(t, i) ==
    CHOOSE j \in i..(Len(t) + 1) :
        /\ j = Len(t) + 1 \/ t[j] \notin JsonWhitespace
        /\ \A m \in i..(j - 1) : t[m] \in JsonWhitespace

ParseFail == [ok |-> FALSE, val |-> PyNone, pos |-> 0]

ParseOk(v, p) == [ok |-> TRUE, val |-> v, pos |-> p]

RECURSIVE ParseValue(_, _), ParseMembers(_, _, _), ParseElements(_, _, _)

\* the value that starts at position i of t; pos is the position after it
ParseValue(t, i) ==
    IF i > Len(t) THEN ParseFail
    ELSE CASE t[i] = "{" ->
                LET j == SkipWs(t, i + 1)
                IN  IF j <= Len(t) /\ t[j] = "}" THEN ParseOk(PyDict(<<>>), j + 1)
                    ELSE ParseMembers(t, j, <<>>)
           [] t[i] = "[" ->
                LET j == SkipWs(t, i + 1)
                IN  IF j <= Len(t) /\ t[j] = "]" THEN ParseOk(PyList(<<>>), j + 1)
                    ELSE ParseElements(t, j, <<>>)
           [] t[i] \in StringLexemes -> ParseOk(PyStr(Unquote(t[i])), i + 1)
           [] t[i] \in NumberLexemes -> ParseOk(PyNum(NumberValue(t[i])), i + 1)
           [] t[i] = "null"  -> ParseOk(PyNone, i + 1)
           [] t[i] = "true"  -> ParseOk([bool |-> TRUE], i + 1)
           [] t[i] = "false" -> ParseOk([bool |-> FALSE], i + 1)
           [] OTHER -> ParseFail

\* "key": value pairs from position i on, up to the closing brace
ParseMembers(t, i, acc) ==
    IF i > Len(t) \/ t[i] \notin StringLexemes THEN ParseFail
    ELSE LET c == SkipWs(t, i + 1)
         IN  IF c > Len(t) \/ t[c] # ":" THEN ParseFail
             ELSE LET r == ParseValue(t, SkipWs(t, c + 1))
                  IN  IF ~r.ok THEN ParseFail
                      ELSE LET e   == SkipWs(t, r.pos)
                               now == DictSet(acc, Unquote(t[i]), r.val)
                           IN  IF e > Len(t) THEN ParseFail
                               ELSE IF t[e] = "}" THEN ParseOk(PyDict(now), e + 1)
                               ELSE IF t[e] = "," THEN ParseMembers(t, SkipWs(t, e + 1), now)
                               ELSE ParseFail

\* list items from position i on, up to the closing bracket
ParseElements(t, i, acc) ==
    LET r == ParseValue(t, i)
    IN  IF ~r.ok THEN ParseFail
        ELSE LET e   == SkipWs(t, r.pos)
                 now == Append(acc, r.val)
             IN  IF e > Len(t) THEN ParseFail
                 ELSE IF t[e] = "]" THEN ParseOk(PyList(now), e + 1)
                 ELSE IF t[e] = "," THEN ParseElements(t, SkipWs(t, e + 1), now)
                 ELSE ParseFail

\* json.loads(t): ok = FALSE stands for json.JSONDecodeError
json_loads(t) ==
    LET r == ParseValue(t, SkipWs(t, 1))
    IN  IF r.ok /\ SkipWs(t, r.pos) = Len(t) + 1
        THEN [ok |-> TRUE, val |-> r.val]
        ELSE [ok |-> FALSE, val |-> PyNone]

(* ------------------------------ json.dumps ----------------------------- *)
Spaces(n) == [i \in 1..n |-> " "]

RECURSIVE json_dumps(_, _), DumpMembers(_, _, _), DumpElements(_, _, _)

\* json.dumps(v, indent=2) of a value nested d levels deep
json_dumps(v, d) ==
    CASE "none" \in DOMAIN v -> <<"null">>
      [] "bool" \in DOMAIN v -> IF v.bool THEN <<"true">> ELSE <<"false">>
      [] "num"  \in DOMAIN v -> IF v.num = 0 THEN <<"0">> ELSE <<"1">>
      [] "str"  \in DOMAIN v -> <<Quote(v.str)>>
      [] "arr"  \in DOMAIN v ->
            IF v.arr = <<>> THEN <<"[", "]">>
            ELSE <<"[">> \o DumpElements(v.arr, 1, d + 1)
                         \o <<"\n">> \o Spaces(2 * d) \o <<"]">>
      [] "obj"  \in DOMAIN v ->
            IF v.obj = <<>> THEN <<"{", "}">>
            ELSE <<"{">> \o DumpMembers(v.obj, 1, d + 1)
                         \o <<"\n">> \o Spaces(2 * d) \o <<"}">>

DumpMembers(pairs, i, d) ==
    IF i > Len(pairs) THEN <<>>
    ELSE <<"\n">> \o Spaces(2 * d) \o <<Quote(pairs[i].k), ":", " ">>
            \o json_dumps(pairs[i].v, d)
            \o (IF i < Len(pairs) THEN <<",">> ELSE <<>>)
            \o DumpMembers(pairs, i + 1, d)

DumpElements(xs, i, d) ==
    IF i > Len(xs) THEN <<>>
    ELSE <<"\n">> \o Spaces(2 * d) \o json_dumps(xs[i], d)
            \o (IF i < Len(xs) THEN <<",">> ELSE <<>>)
            \o DumpElements(xs, i + 1, d)

(* ------------------------------ the schema ----------------------------- *)
Field(key, val) == [k |-> key, v |-> val]

\* invoice_schema, with the invoice number the document shows
InvoiceRecord(number) ==
    PyDict(<<Field("invoice", PyDict(<<
        Field("header", PyDict(<<
            Field("invoice_number", PyStr(number)),
            Field("invoice_date", PyStr("")),
            Field("due_date", PyStr("")),
            Field("issuing_company", PyStr("")),
            Field("currency", PyStr(""))>>)),
        Field("billing_parties", PyDict(<<
            Field("bill_to", PyDict(<<
                Field("company_name", PyStr("")),
                Field("address", PyStr("")),
                Field("organization_number", PyStr("")),
                Field("vat_number", PyStr(""))>>)),
            Field("bill_from", PyDict(<<
                Field("company_name", PyStr("")),
                Field("address", PyStr("")),
                Field("organization_number", PyStr("")),
                Field("vat_number", PyStr("")),
                Field("phone", PyStr("")),
                Field("email", PyStr("")),
                Field("reference", PyStr(""))>>))>>)),
        Field("line_items", PyList(<<>>)),
        Field("totals", PyDict(<<
            Field("subtotal", PyNum(0)),
            Field("total_discount", PyNum(0)),
            Field("total_vat", PyNum(0)),
            Field("total_amount", PyNum(0)),
            Field("amount_paid", PyNum(0)),
            Field("balance_due", PyNum(0))>>)),
        Field("payment_info", PyDict(<<
            Field("bank_name", PyStr("")),
            Field("iban", PyStr("")),
            Field("swift_bic", PyStr("")),
            Field("payment_reference", PyStr(""))>>))>>))>>)

invoice_schema == InvoiceRecord("")

\* v has every key of the schema value s, recursively
RECURSIVE Conforms(_, _)
Conforms(v, s) ==
    IF IsObj(s)
    THEN /\ IsObj(v)
         /\ \A i \in 1..Len(s.obj) :
               /\ HasKey(v.obj, s.obj[i].k)
               /\ Conforms(DictGet(v.obj, s.obj[i].k), s.obj[i].v)
    ELSE TRUE

(* ------------------------- the extraction client ----------------------- *)
\* a fence stripper that drops the back-ticks and leaves the language tag
StripTicksOnly(text) ==
    LET t0 == PyStrip(text)
        t1 == IF StartsWith(t0, FenceOpen)
              THEN SubSeq(t0, Len(FenceClose) + 1, Len(t0)) ELSE t0
    IN  IF EndsWith(t1, FenceClose)
        THEN SubSeq(t1, 1, Len(t1) - Len(FenceClose)) ELSE t1

\* lines 167-171: strip, then drop a leading fence with tag, a trailing fence
StripFences(text) ==
    LET t0 == PyStrip(text)
        t1 == IF StartsWith(t0, FenceOpen)
              THEN SubSeq(t0, Len(FenceOpen) + 1, Len(t0)) ELSE t0
    IN  IF EndsWith(t1, FenceClose)
        THEN SubSeq(t1, 1, Len(t1) - Len(FenceClose)) ELSE t1

\* what a call of extract_invoice_data ends in
Returned(v) == [raised |-> FALSE, val |-> v]

Raised == [raised |-> TRUE, val |-> PyNone]

\* env: does anthropic.Anthropic(...) succeed, does messages.create succeed
\* (with a text block in the response), and the text of the response
extract_invoice_data(env) ==
    IF ~env.client_ok THEN Raised
    ELSE IF ~env.call_ok THEN Returned(PyNone)
    ELSE LET r == json_loads(StripFences(env.text))
         IN  IF r.ok THEN Returned(r.val) ELSE Returned(PyNone)

(* --------------------------- the summary export ------------------------ *)
EmptyDict == PyDict(<<>>)

\* d.get(key, default) of a dict d
PyGet(d, key, default) ==
    IF HasKey(d.obj, key) THEN DictGet(d.obj, key) ELSE default

SummaryColumns ==
    <<"filename", "invoice_number", "company", "total_amount", "currency",
      "balance_due", "invoice_date", "due_date">>

\* lines 527-537: the row of one stored record; ok = FALSE stands for the
\* AttributeError of .get on a value that is no dict
summary_row(filename, data) ==
    LET invoice   == PyGet(data, "invoice", EmptyDict)
        header    == PyGet(invoice, "header", EmptyDict)
        parties   == PyGet(invoice, "billing_parties", EmptyDict)
        bill_from == PyGet(parties, "bill_from", EmptyDict)
        totals    == PyGet(invoice, "totals", EmptyDict)
    IN  IF /\ IsObj(data) /\ IsObj(invoice) /\ IsObj(header)
           /\ IsObj(parties) /\ IsObj(bill_from) /\ IsObj(totals)
        THEN [ok  |-> TRUE,
              row |-> <<PyStr(filename),
                        PyGet(header, "invoice_number", PyStr("")),
                        PyGet(bill_from, "company_name", PyStr("")),
                        PyGet(totals, "total_amount", PyNum(0)),
                        PyGet(header, "currency", PyStr("")),
                        PyGet(totals, "balance_due", PyNum(0)),
                        PyGet(header, "invoice_date", PyStr("")),
                        PyGet(header, "due_date", PyStr(""))>>]
        ELSE [ok |-> FALSE, row |-> <<>>]

\* a writer that takes the columns from the first row without looking
summary_csv_unguarded(data) ==
    LET rows == [i \in 1..Len(data) |-> summary_row(data[i].k, data[i].v)]
    IN  IF Len(data) = 0 \/ \E i \in 1..Len(data) : ~rows[i].ok
        THEN [ok |-> FALSE, lines |-> <<>>]
        ELSE [ok |-> TRUE,
              lines |-> <<[c \in 1..Len(SummaryColumns) |-> PyStr(SummaryColumns[c])]>>
                          \o [i \in 1..Len(data) |-> rows[i].row]]

\* lines 524-546: the lines of the summary CSV, each a sequence of cells
summary_csv(data) ==
    LET rows == [i \in 1..Len(data) |-> summary_row(data[i].k, data[i].v)]
    IN  IF \E i \in 1..Len(data) : ~rows[i].ok
        THEN [ok |-> FALSE, lines |-> <<>>]
        ELSE IF Len(data) = 0
        THEN [ok |-> TRUE, lines |-> <<>>]
        ELSE [ok |-> TRUE,
              lines |-> <<[c \in 1..Len(SummaryColumns) |-> PyStr(SummaryColumns[c])]>>
                          \o [i \in 1..Len(data) |-> rows[i].row]]

(* ------------------------------ the inputs ----------------------------- *)
Names == {"a.jpg", "b.jpg"}

ApiKeys == {"", "sk-key"}

\* the invoice number printed on the image of the i-th upload slot
InvoiceNumber(img) == IF img = 1 THEN "INV-1" ELSE IF img = 2 THEN "INV-2" ELSE "INV-3"

\* the uploads: up to MaxFiles files, the i-th with image i and any name
FileLists ==
    UNION {{[i \in 1..n |-> [name |-> nm[i], img |-> i]] : nm \in [1..n -> Names]}
           : n \in 0..MaxFiles}

Fenced(j) == FenceOpen \o <<"\n">> \o j \o <<"\n">> \o FenceClose

PartialText == <<"{", Quote("invoice"), ":", " ", "{", Quote("header"), ":", " ", "{", "}", "}", "}">>

\* JSON texts of the other false values: [], 0, false and ""
RareFalsyTexts == {<<"[", "]">>, <<"0">>, <<"false">>, <<Quote("")>>}

\* the texts the model may answer with for an image (the rarer false values
\* are tried on the first image only)
Responses(img) ==
    {json_dumps(InvoiceRecord(InvoiceNumber(img)), 0),
     Fenced(json_dumps(InvoiceRecord(InvoiceNumber(img)), 0)),
     PartialText,
     <<"[", "1", "]">>,
     <<"{", "}">>,
     <<"null">>,
     <<"{", Quote("invoice"), ":">>}
    \cup (IF img = 1 THEN RareFalsyTexts ELSE {})

Envs(img) ==
    {[client_ok |-> FALSE, call_ok |-> FALSE, text |-> <<>>],
     [client_ok |-> TRUE, call_ok |-> FALSE, text |-> <<>>]}
    \cup {[client_ok |-> TRUE, call_ok |-> TRUE, text |-> t] : t \in Responses(img)}

\* Envs and extract_invoice_data, tabulated over the images
EnvTable == [i \in 1..MaxFiles |-> Envs(i)]

Extracted == [e \in UNION {Envs(i) : i \in 1..MaxFiles} |-> extract_invoice_data(e)]

(* ------------------------------- the state ----------------------------- *)
VARIABLES
    api_key,                \* the sidebar's text input
    uploaded_files,         \* the uploader's files, in order
    all_extracted_data,     \* st.session_state.all_extracted_data
    pc,                     \* "idle", "batch", "extract" or "single"
    idx,                    \* items of the batch loop that are done
    successful_extractions,
    failed_extractions,
    selected_invoice,       \* the name chosen in the selectbox ("" for none)
    op,                     \* the handler of the current script run
    blocked,                \* it returned at the API key check
    store0,                 \* all_extracted_data when the handler started
    trace,                  \* the item attempts of the handler, in order
    probe,                  \* the input of a function under study
    probed                  \* its results

vars == <<api_key, uploaded_files, all_extracted_data, pc, idx,
          successful_extractions, failed_extractions, selected_invoice,
          op, blocked, store0, trace, probe, probed>>

appvars == <<api_key, uploaded_files, all_extracted_data, pc, idx,
             successful_extractions, failed_extractions, selected_invoice,
             op, blocked, store0, trace>>

NotRun == [done |-> {}]

StartEvent(i) == [e |-> "start", i |-> i, out |-> "-", val |-> PyNone]

RetEvent(i, out, v) == [e |-> "ret", i |-> i, out |-> out, val |-> v]

Init ==
    /\ api_key \in ApiKeys
    /\ uploaded_files \in FileLists
    /\ all_extracted_data = <<>>
    /\ pc = "idle"
    /\ idx = 0
    /\ successful_extractions = 0
    /\ failed_extractions = 0
    /\ selected_invoice = ""
    /\ op = "none"
    /\ blocked = FALSE
    /\ store0 = <<>>
    /\ trace = <<>>
    /\ probe = NotRun
    /\ probed = NotRun

\* a key check that lets the empty key through
NeverInvalid(key) == FALSE

\* not api_key
InvalidCredential(key) == key = ""

\* a selection that takes the last file of the name
LastFile(files, name) ==
    CHOOSE i \in 1..Len(files) :
        /\ files[i].name = name
        /\ \A j \in (i + 1)..Len(files) : files[j].name # name

\* a selection that takes the first file, whatever its name
FirstFile(files, name) == 1

\* next(f for f in uploaded_files if f.name == selected_invoice)
SelectedFile(files, name) ==
    CHOOSE i \in 1..Len(files) :
        /\ files[i].name = name
        /\ \A j \in 1..(i - 1) : files[j].name # name

\* a script run in which the key is typed and no button is pressed
EnterApiKey(k) ==
    /\ pc = "idle"
    /\ k # api_key
    /\ api_key' = k
    /\ op' = "none"
    /\ blocked' = FALSE
    /\ trace' = <<>>
    /\ store0' = all_extracted_data
    /\ idx' = 0
    /\ successful_extractions' = 0
    /\ failed_extractions' = 0
    /\ UNCHANGED <<uploaded_files, all_extracted_data, pc, selected_invoice>>
    /\ UNCHANGED <<probe, probed>>

\* "Process All Invoices" pressed: the key check and the counters
ProcessAll ==
    /\ pc = "idle"
    /\ uploaded_files # <<>>
    /\ op' = "all"
    /\ blocked' = InvalidCredential(api_key)
    /\ pc' = IF InvalidCredential(api_key) THEN "idle" ELSE "batch"
    /\ idx' = 0
    /\ successful_extractions' = 0
    /\ failed_extractions' = 0
    /\ trace' = <<>>
    /\ store0' = all_extracted_data
    /\ UNCHANGED <<api_key, uploaded_files, all_extracted_data, selected_invoice>>
    /\ UNCHANGED <<probe, probed>>

\* an except branch that forgets its counter
TallyDropsException(r) ==
    IF r.raised THEN [succ |-> 0, fail |-> 0]
    ELSE IF Truthy(r.val) THEN [succ |-> 1, fail |-> 0]
    ELSE [succ |-> 0, fail |-> 1]

\* the test is-not-None in the place of the truth value
TallyNotNone(r) ==
    IF r.raised THEN [succ |-> 0, fail |-> 1]
    ELSE IF r.val # PyNone THEN [succ |-> 1, fail |-> 0]
    ELSE [succ |-> 0, fail |-> 1]

\* lines 421-429: which of the two counters an item's outcome increments
Tally(r) ==
    IF r.raised THEN [succ |-> 0, fail |-> 1]
    ELSE IF Truthy(r.val) THEN [succ |-> 1, fail |-> 0]
    ELSE [succ |-> 0, fail |-> 1]

\* all_extracted_data[name] = extracted_data, under if extracted_data:
Upsert(data, name, r) ==
    IF ~r.raised /\ Truthy(r.val) THEN DictSet(data, name, r.val) ELSE data

\* a loop that an item's exception ends
LoopStopsOnFailure(i, r, n) == IF r.raised THEN n ELSE i + 1

\* the for loop: the items done after item i + 1 of n ended in r
LoopNext(i, r, n) == i + 1

\* one iteration of the loop starts: seek, encode_image; the call is made
ItemBegin(read_ok) ==
    /\ pc = "batch"
    /\ idx < Len(uploaded_files)
    /\ IF read_ok
       THEN /\ pc' = "extract"
            /\ trace' = Append(trace, StartEvent(idx + 1))
            /\ UNCHANGED <<idx, successful_extractions, failed_extractions>>
       ELSE /\ pc' = "batch"
            /\ trace' = trace \o <<StartEvent(idx + 1),
                                   RetEvent(idx + 1, "raised_read", PyNone)>>
            /\ idx' = LoopNext(idx, Raised, Len(uploaded_files))
            /\ successful_extractions' = successful_extractions + Tally(Raised).succ
            /\ failed_extractions' = failed_extractions + Tally(Raised).fail
    /\ UNCHANGED <<api_key, uploaded_files, all_extracted_data,
                   selected_invoice, op, blocked, store0>>
    /\ UNCHANGED <<probe, probed>>

\* extract_invoice_data is back: the rest of the iteration
ItemEnd(env) ==
    /\ pc = "extract"
    /\ LET f == uploaded_files[idx + 1]
           r == Extracted[env]
       IN  /\ all_extracted_data' = Upsert(all_extracted_data, f.name, r)
           /\ successful_extractions' = successful_extractions + Tally(r).succ
           /\ failed_extractions' = failed_extractions + Tally(r).fail
           /\ trace' = Append(trace,
                  RetEvent(idx + 1, IF r.raised THEN "raised_extract" ELSE "returned", r.val))
           /\ idx' = LoopNext(idx, r, Len(uploaded_files))
    /\ pc' = "batch"
    /\ UNCHANGED <<api_key, uploaded_files, selected_invoice, op, blocked, store0>>
    /\ UNCHANGED <<probe, probed>>

\* the loop is over: "Processing complete!" and the counts are shown
BatchDone ==
    /\ pc = "batch"
    /\ idx = Len(uploaded_files)
    /\ pc' = "idle"
    /\ UNCHANGED <<api_key, uploaded_files, all_extracted_data, idx,
                   successful_extractions, failed_extractions,
                   selected_invoice, op, blocked, store0, trace>>
    /\ UNCHANGED <<probe, probed>>

\* "Process Selected" pressed with a file chosen: up to the call
ProcessSingle(name, read_ok) ==
    /\ pc = "idle"
    /\ uploaded_files # <<>>
    /\ \E i \in 1..Len(uploaded_files) : uploaded_files[i].name = name
    /\ selected_invoice' = name
    /\ op' = "single"
    /\ blocked' = InvalidCredential(api_key)
    /\ store0' = all_extracted_data
    /\ idx' = 0
    /\ successful_extractions' = 0
    /\ failed_extractions' = 0
    /\ IF InvalidCredential(api_key)
       THEN pc' = "idle" /\ trace' = <<>>
       ELSE LET i == SelectedFile(uploaded_files, name)
            IN  IF read_ok
                THEN pc' = "single" /\ trace' = <<StartEvent(i)>>
                ELSE /\ pc' = "idle"
                     /\ trace' = <<StartEvent(i), RetEvent(i, "raised_read", PyNone)>>
    /\ UNCHANGED <<api_key, uploaded_files, all_extracted_data>>
    /\ UNCHANGED <<probe, probed>>

\* extract_invoice_data is back in the single-item branch
SingleEnd(env) ==
    /\ pc = "single"
    /\ LET i == SelectedFile(uploaded_files, selected_invoice)
           f == uploaded_files[i]
           r == Extracted[env]
       IN  /\ all_extracted_data' = Upsert(all_extracted_data, f.name, r)
           /\ trace' = Append(trace,
                  RetEvent(i, IF r.raised THEN "raised_extract" ELSE "returned", r.val))
    /\ pc' = "idle"
    /\ UNCHANGED <<api_key, uploaded_files, idx, successful_extractions,
                   failed_extractions, selected_invoice, op, blocked, store0>>
    /\ UNCHANGED <<probe, probed>>

\* a clear that drops the oldest entry only
ClearOldest ==
    /\ pc = "idle"
    /\ uploaded_files # <<>>
    /\ all_extracted_data # <<>>
    /\ all_extracted_data' = Tail(all_extracted_data)
    /\ op' = "clear"
    /\ blocked' = FALSE
    /\ store0' = all_extracted_data
    /\ trace' = <<>>
    /\ idx' = 0
    /\ successful_extractions' = 0
    /\ failed_extractions' = 0
    /\ UNCHANGED <<api_key, uploaded_files, pc, selected_invoice>>
    /\ UNCHANGED <<probe, probed>>

\* "Clear All Data" pressed
ClearAll ==
    /\ pc = "idle"
    /\ uploaded_files # <<>>
    /\ all_extracted_data # <<>>
    /\ all_extracted_data' = <<>>
    /\ op' = "clear"
    /\ blocked' = FALSE
    /\ store0' = all_extracted_data
    /\ trace' = <<>>
    /\ idx' = 0
    /\ successful_extractions' = 0
    /\ failed_extractions' = 0
    /\ UNCHANGED <<api_key, uploaded_files, pc, selected_invoice>>
    /\ UNCHANGED <<probe, probed>>

\* a script run with no processing: a download button pressed, or the
\* selectbox changed; lines 466-554 show the stored records and build the
\* JSON and CSV downloads from them, reading the store only (what is shown
\* goes to the page and is no state of the program)
Render ==
    /\ pc = "idle"
    /\ uploaded_files # <<>>
    /\ all_extracted_data # <<>>
    /\ op # "render"
    /\ op' = "render"
    /\ blocked' = FALSE
    /\ store0' = all_extracted_data
    /\ trace' = <<>>
    /\ idx' = 0
    /\ successful_extractions' = 0
    /\ failed_extractions' = 0
    /\ UNCHANGED <<api_key, uploaded_files, all_extracted_data, pc, selected_invoice>>
    /\ UNCHANGED <<probe, probed>>

Next ==
    \/ \E k \in ApiKeys : EnterApiKey(k)
    \/ ProcessAll
    \/ \E read_ok \in BOOLEAN : ItemBegin(read_ok)
    \/ \E f \in 1..Len(uploaded_files) :
          \E env \in EnvTable[uploaded_files[f].img] : f = idx + 1 /\ ItemEnd(env)
    \/ BatchDone
    \/ \E name \in Names, read_ok \in BOOLEAN : ProcessSingle(name, read_ok)
    \/ \E f \in 1..Len(uploaded_files) :
          \E env \in EnvTable[uploaded_files[f].img] :
              /\ pc = "single"
              /\ f = SelectedFile(uploaded_files, selected_invoice)
              /\ SingleEnd(env)
    \/ ClearAll
    \/ Render

Spec == Init /\ [][Next]_vars

(* --------------------- the functions taken alone ----------------------- *)
AppIdle ==
    /\ api_key = ""
    /\ uploaded_files = <<>>
    /\ all_extracted_data = <<>>
    /\ pc = "idle"
    /\ idx = 0
    /\ successful_extractions = 0
    /\ failed_extractions = 0
    /\ selected_invoice = ""
    /\ op = "none"
    /\ blocked = FALSE
    /\ store0 = <<>>
    /\ trace = <<>>

\* the values a store may hold: whatever truthy value a response parsed to
StoredValues ==
    {InvoiceRecord(InvoiceNumber(i)) : i \in 1..MaxFiles}
    \cup {json_loads(PartialText).val, PyList(<<PyNum(1)>>),
          PyDict(<<Field("foo", PyNum(1))>>)}

\* the stores over Names: no entry, one, or one for each of two names
SummaryStores ==
    {<<>>}
    \cup {<<Field(n, v)>> : n \in Names, v \in StoredValues}
    \cup {<<Field(n1, v1), Field(n2, v2)>> :
             <<n1, n2>> \in {p \in Names \X Names : p[1] # p[2]},
             <<v1, v2>> \in StoredValues \X StoredValues}

SummaryInit ==
    /\ AppIdle
    /\ probe \in {[data |-> d] : d \in SummaryStores}
    /\ probed = NotRun

BuildSummary ==
    /\ probed = NotRun
    /\ probed' = [done |-> {"summary"}, csv |-> summary_csv(probe.data)]
    /\ UNCHANGED <<appvars, probe>>

SummaryNext == BuildSummary

SpecSummary == SummaryInit /\ [][SummaryNext]_vars

\* texts J: JSON texts, and three that are not (cut short, a form feed in
\* front, back-ticks behind)
FenceTexts ==
    {json_dumps(InvoiceRecord("INV-1"), 0),
     PartialText,
     <<"{", "}">>,
     <<"[", "1", "]">>,
     <<"null">>,
     <<Quote("foo")>>,
     <<" ", "{", "\n", "}", "\n">>,
     <<"{", Quote("invoice"), ":">>,
     <<"\f", "{", "}">>,
     <<"{", "}", Tick, Tick, Tick>>}

Pads == {<<>>, <<" ">>, <<"\n">>, <<"\n", " ">>, <<"\f">>}

\* the output with fences: a line with the opening fence, J, the closing fence
FencedOutput(c) ==
    c.lead \o FenceOpen \o <<"\n">> \o c.j \o c.sep \o FenceClose \o c.trail

PlainOutput(c) == c.lead \o c.j \o c.trail

Answer(t) == [client_ok |-> TRUE, call_ok |-> TRUE, text |-> t]

FenceInit ==
    /\ AppIdle
    /\ probe \in {[j |-> j, lead |-> a, trail |-> b, sep |-> c] :
                     j \in FenceTexts, a \in Pads, b \in Pads,
                     c \in {<<"\n">>, <<>>}}
    /\ probed = [done |-> {}, fenced |-> Raised, plain |-> Raised]

ParseFenced ==
    /\ "fenced" \notin probed.done
    /\ probed' = [probed EXCEPT !.done = @ \cup {"fenced"},
                                !.fenced = extract_invoice_data(Answer(FencedOutput(probe)))]
    /\ UNCHANGED <<appvars, probe>>

ParsePlain ==
    /\ "plain" \notin probed.done
    /\ probed' = [probed EXCEPT !.done = @ \cup {"plain"},
                                !.plain = extract_invoice_data(Answer(PlainOutput(probe)))]
    /\ UNCHANGED <<appvars, probe>>

FenceNext == ParseFenced \/ ParsePlain

SpecFence == FenceInit /\ [][FenceNext]_vars

(* ------------------------------ the claims ----------------------------- *)
\* a handler that got past the API key check
Running(o) == op = o /\ ~blocked

RetEvents == {k \in 1..Len(trace) : trace[k].e = "ret"}

\* the values Python takes as false
FalsyValues ==
    {PyNone, PyDict(<<>>), PyList(<<>>), PyNum(0), PyStr(""), [bool |-> FALSE]}

\* the item ended in a record: it returned, and not a false value
GaveRecord(ev) == ev.e = "ret" /\ ev.out = "returned" /\ ev.val \notin FalsyValues

\* the entry of a name in a dict: present or not, and its value
Lookup(pairs, name) ==
    IF HasKey(pairs, name)
    THEN [present |-> TRUE, val |-> DictGet(pairs, name)]
    ELSE [present |-> FALSE, val |-> PyNone]

\* C1: in a batch every finished item has incremented exactly one of the two
\* counters (successes are the items that ended in a record, failures all the
\* others, exceptions included), so the counters add up to the number of
\* items done and, when processAll has finished, to the length of the batch.
BatchCountsAddUp ==
    Running("all") =>
        /\ successful_extractions = Cardinality({k \in RetEvents : GaveRecord(trace[k])})
        /\ failed_extractions = Cardinality({k \in RetEvents : ~GaveRecord(trace[k])})
        /\ successful_extractions + failed_extractions = Cardinality(RetEvents)
        /\ pc = "idle" =>
              successful_extractions + failed_extractions = Len(uploaded_files)

\* a finished batch with a success, and a failure that was an exception
BatchCountsWitness ==
    /\ Running("all") /\ pc = "idle"
    /\ Len(uploaded_files) = MaxFiles
    /\ successful_extractions >= 1
    /\ \E k \in RetEvents : trace[k].out \in {"raised_read", "raised_extract"}

\* C2: the attempts of a batch are start 1, end 1, start 2, end 2, ...: every
\* item once, in input order, the next one started only after the previous
\* one ended, whatever that one ended in; a finished batch has all of them.
AttemptsInOrder ==
    Running("all") =>
        /\ \A k \in 1..Len(trace) :
              /\ trace[k].i = (k + 1) \div 2
              /\ trace[k].e = IF k % 2 = 1 THEN "start" ELSE "ret"
        /\ pc = "idle" => Len(trace) = 2 * Len(uploaded_files)
        /\ pc = "batch" => Len(trace) = 2 * idx
        /\ pc = "extract" => Len(trace) = 2 * idx + 1

\* a finished batch whose first item failed and whose last item succeeded
AttemptsWitness ==
    /\ Running("all") /\ pc = "idle"
    /\ Len(uploaded_files) = MaxFiles
    /\ ~GaveRecord(trace[2])
    /\ GaveRecord(trace[Len(trace)])

\* the last attempt of the handler for a name that ended in a record (0: none)
LastRecord(name) ==
    LET S == {k \in RetEvents :
                 GaveRecord(trace[k]) /\ uploaded_files[trace[k].i].name = name}
    IN  IF S = {} THEN 0 ELSE CHOOSE k \in S : \A m \in S : m <= k

\* C3: during and after processAll / processOne the store is the store
\* before the call, updated with the records of the items that succeeded and
\* nothing else: a name none of whose items gave a record keeps its prior
\* entry (or none). With N distinct names, an empty store before and one
\* failure, the keys are the N-1 names of the other items.
FailuresLeaveStore ==
    (op \in {"all", "single"}) =>
        /\ \A name \in Names :
              IF LastRecord(name) = 0
              THEN Lookup(all_extracted_data, name) = Lookup(store0, name)
              ELSE Lookup(all_extracted_data, name)
                     = [present |-> TRUE, val |-> trace[LastRecord(name)].val]
        /\ \A k \in 1..Len(all_extracted_data) : all_extracted_data[k].k \in Names
        /\ ( /\ op = "all" /\ pc = "idle" /\ ~blocked /\ store0 = <<>>
             /\ \A i, j \in 1..Len(uploaded_files) :
                   uploaded_files[i].name = uploaded_files[j].name => i = j
             /\ failed_extractions = 1 )
           => /\ successful_extractions = Len(uploaded_files) - 1
              /\ {all_extracted_data[k].k : k \in 1..Len(all_extracted_data)}
                   = {uploaded_files[trace[k].i].name :
                         k \in {m \in RetEvents : GaveRecord(trace[m])}}
              /\ Len(all_extracted_data) = Len(uploaded_files) - 1

\* a failed re-processing of a stored name: its prior record is still there
FailuresLeaveStoreWitness ==
    /\ op = "all" /\ pc = "idle" /\ ~blocked
    /\ Len(uploaded_files) = MaxFiles
    /\ failed_extractions = 1
    /\ store0 # <<>>
    /\ \E k \in RetEvents :
          /\ ~GaveRecord(trace[k])
          /\ HasKey(store0, uploaded_files[trace[k].i].name)
          /\ LastRecord(uploaded_files[trace[k].i].name) = 0

\* a batch of distinct names on an empty store with exactly one failure
IsolationWitness ==
    /\ op = "all" /\ pc = "idle" /\ ~blocked /\ store0 = <<>>
    /\ Len(uploaded_files) = MaxFiles
    /\ \A i, j \in 1..Len(uploaded_files) :
          uploaded_files[i].name = uploaded_files[j].name => i = j
    /\ failed_extractions = 1

UniqueKeys(pairs) ==
    \A i, j \in 1..Len(pairs) : pairs[i].k = pairs[j].k => i = j

\* a step that writes a record into the store
WritesRecord ==
    /\ pc \in {"extract", "single"}
    /\ all_extracted_data' # all_extracted_data

\* C4: the store never holds two entries for one name, and a step that
\* writes the record of a name already stored replaces that record and
\* keeps the entries and their number; for a new name it adds one entry.
LastWriteWinsStep ==
    WritesRecord =>
        LET ev   == trace'[Len(trace')]
            name == uploaded_files[ev.i].name
        IN  /\ GaveRecord(ev)
            /\ Lookup(all_extracted_data', name) = [present |-> TRUE, val |-> ev.val]
            /\ IF HasKey(all_extracted_data, name)
               THEN Keys(all_extracted_data') = Keys(all_extracted_data)
               ELSE Keys(all_extracted_data') = Append(Keys(all_extracted_data), name)
            /\ \A other \in Names \ {name} :
                  Lookup(all_extracted_data', other) = Lookup(all_extracted_data, other)

LastWriteWins == [](UniqueKeys(all_extracted_data)) /\ [][LastWriteWinsStep]_vars

\* a batch with one name twice, both items giving records: one entry, the later
OverwriteWitness ==
    /\ op = "all" /\ pc = "idle" /\ ~blocked
    /\ Len(uploaded_files) >= 2
    /\ uploaded_files[1].name = uploaded_files[2].name
    /\ GaveRecord(trace[2]) /\ GaveRecord(trace[4])
    /\ trace[2].val # trace[4].val
    /\ store0 # <<>>
    /\ Len(all_extracted_data) = 1
    /\ all_extracted_data[1].v = trace[4].val

\* C5: no call of extract_invoice_data ends in an exception that reaches
\* its caller: every failure is a returned value.
ExtractNeverRaises ==
    \A k \in RetEvents : trace[k].out # "raised_extract"

\* C6: every stored record has the invoice envelope and every declared field.
StoredRecordsConform ==
    \A k \in 1..Len(all_extracted_data) :
        Conforms(all_extracted_data[k].v, invoice_schema)

\* C7: a handler pressed with an empty API key returns at once: no item is
\* attempted, no call is made, and the store is the one before.
NoKeyNoCall ==
    (api_key = "" /\ op \in {"all", "single"}) =>
        /\ pc = "idle"
        /\ trace = <<>>
        /\ all_extracted_data = store0

\* processOne pressed without a key while the store holds records
NoKeyWitness ==
    /\ api_key = "" /\ op = "single"
    /\ all_extracted_data # <<>>

\* C8: processOne attempts only an item with the selected name, and every
\* entry of another name is, in key, record and order, as before the call.
SingleTouchesOnlySelected ==
    (op = "single") =>
        /\ \A k \in 1..Len(trace) : uploaded_files[trace[k].i].name = selected_invoice
        /\ Len(trace) <= 2
        /\ \A other \in Names \ {selected_invoice} :
              Lookup(all_extracted_data, other) = Lookup(store0, other)
        /\ SelectSeq(Keys(all_extracted_data), LAMBDA n : n # selected_invoice)
             = SelectSeq(Keys(store0), LAMBDA n : n # selected_invoice)

\* processOne replaced the record of the selected name; the other entry stays
SingleWitness ==
    /\ op = "single" /\ pc = "idle" /\ ~blocked
    /\ Len(store0) = 2
    /\ Len(trace) = 2 /\ GaveRecord(trace[2])
    /\ Lookup(store0, selected_invoice).val # trace[2].val
    /\ selected_invoice = uploaded_files[Len(uploaded_files)].name

EightColumns ==
    <<PyStr("filename"), PyStr("invoice_number"), PyStr("company"),
      PyStr("total_amount"), PyStr("currency"), PyStr("balance_due"),
      PyStr("invoice_date"), PyStr("due_date")>>

FenceStripEquivalent ==
    (probed.done = {"fenced", "plain"} /\ json_loads(probe.j).ok) =>
        /\ probed.fenced = probed.plain
        /\ probed.fenced = Returned(json_loads(probe.j).val)

\* the full record, fenced and padded, parsed both ways
FenceWitness ==
    /\ probed.done = {"fenced", "plain"}
    /\ probe.j = json_dumps(InvoiceRecord("INV-1"), 0)
    /\ probe.lead # <<>> /\ probe.trail # <<>>
    /\ probed.fenced = Returned(InvoiceRecord("INV-1"))

\* a step of the program (not a stuttering one) that ends in handler o
StepOf(o) == op' = o /\ vars' # vars

\* the step is the return of an extraction that gave a record for the name
RecordStepFor(name) ==
    /\ pc \in {"extract", "single"}
    /\ Len(trace') = Len(trace) + 1
    /\ GaveRecord(trace'[Len(trace')])
    /\ uploaded_files[trace'[Len(trace')].i].name = name

\* C11: in every step, a name enters the store only when an extraction for
\* it gave a record, the record of a name changes only then too, a name
\* leaves the store only in a clear-all step, a clear-all step leaves the
\* store empty, and a step that only shows or exports leaves the store as is.
LifecycleStep ==
    /\ \A name \in Names :
          /\ (~HasKey(all_extracted_data, name) /\ HasKey(all_extracted_data', name))
                => RecordStepFor(name)
          /\ ( /\ HasKey(all_extracted_data, name) /\ HasKey(all_extracted_data', name)
               /\ DictGet(all_extracted_data', name) # DictGet(all_extracted_data, name) )
                => /\ RecordStepFor(name)
                   /\ DictGet(all_extracted_data', name) = trace'[Len(trace')].val
          /\ (HasKey(all_extracted_data, name) /\ ~HasKey(all_extracted_data', name))
                => StepOf("clear")
    /\ StepOf("clear") => all_extracted_data' = <<>>
    /\ StepOf("render") => all_extracted_data' = all_extracted_data

Lifecycle == [][LifecycleStep]_vars

\* clear-all has emptied a store of two records
LifecycleWitness ==
    /\ op = "clear"
    /\ Len(store0) = 2
    /\ all_extracted_data = <<>>

\* the step is the return of an extraction with a false value that JSON
\* text can stand for
FalsyReturnStep ==
    /\ pc \in {"extract", "single"}
    /\ Len(trace') = Len(trace) + 1
    /\ trace'[Len(trace')].out = "returned"
    /\ trace'[Len(trace')].val \in FalsyValues

\* C12: when an extraction returns a false value ({}, [], null, 0, false or
\* ""), the store stays as it was, and in processAll the failure counter
\* goes up by one and the success counter stays.
FalsyIsFailureStep ==
    FalsyReturnStep =>
        /\ all_extracted_data' = all_extracted_data
        /\ pc = "extract" =>
              /\ failed_extractions' = failed_extractions + 1
              /\ successful_extractions' = successful_extractions

FalsyIsFailure == [][FalsyIsFailureStep]_vars

\* a finished batch on a store with a record for the name, whose first item
\* returned the empty object: a failure, and the record is still there
FalsyWitness ==
    /\ Running("all") /\ pc = "idle"
    /\ trace[2].out = "returned" /\ trace[2].val = PyDict(<<>>)
    /\ failed_extractions = Len(uploaded_files)
    /\ HasKey(store0, uploaded_files[1].name)
    /\ all_extracted_data = store0

\* the items of a name, by position
ItemsNamed(name) == {i \in 1..Len(uploaded_files) : uploaded_files[i].name = name}

\* C13: processOne attempts the first item that has the selected name and no
\* other; after processAll the record of a name is that of the last of its
\* items that gave a record.
FirstForOneLastForAll ==
    /\ (op = "single") =>
          \A k \in 1..Len(trace) :
              /\ trace[k].i \in ItemsNamed(selected_invoice)
              /\ \A j \in ItemsNamed(selected_invoice) : trace[k].i <= j
    /\ (Running("all") /\ pc = "idle") =>
          \A name \in Names :
              LET gave == {i \in ItemsNamed(name) :
                             \E k \in RetEvents : trace[k].i = i /\ GaveRecord(trace[k])}
              IN  gave # {} =>
                    LET last == CHOOSE i \in gave : \A j \in gave : j <= i
                    IN  /\ HasKey(all_extracted_data, name)
                        /\ DictGet(all_extracted_data, name) = trace[2 * last].val

\* processOne after processAll: the name is there twice, the store held the
\* record of the second item, and now holds the record of the first
ReplacedByFirstWitness ==
    /\ op = "single" /\ pc = "idle" /\ ~blocked
    /\ Len(uploaded_files) = 2
    /\ uploaded_files[1].name = uploaded_files[2].name
    /\ store0 = <<Field(uploaded_files[1].name, InvoiceRecord(InvoiceNumber(2)))>>
    /\ all_extracted_data = <<Field(uploaded_files[1].name, InvoiceRecord(InvoiceNumber(1)))>>

====
